---- MODULE Spec2Model ----
(***************************************************************************)
(* Model of data_loading/augmenter.py: the Augmenter facade, the           *)
(* sequential augmenter, and the parallel augmenter with its worker        *)
(* processes, pipes, abort event and shutdown.  The coordinator (the       *)
(* generator body of _ParallelAugmenter.__iter__) and every worker process *)
(* (_WorkerProcess.run) are separate processes of the model; pipes are     *)
(* FIFO sequences.  SpecData models data_loading/data_loader.py (the       *)
(* process_id property) and DataManager.n_batches of data_manager.py.      *)
(***************************************************************************)
EXTENDS Integers, Sequences, FiniteSets, TLC

\* ------------------------------------------------------------- bounds
MaxProcs   == 2      \* largest num_processes argument tried
MaxSamples == 6      \* largest dataset size tried
MaxBatch   == 2      \* largest index-group size tried
MaxPasses  == 2      \* number of times the augmenter is iterated
MaxProcsRepeat == 1  \* largest num_processes argument tried when iterated again
MaxSamplesRepeat == 4  \* largest dataset size tried when iterated again
MaxSamplesFair == 3    \* largest dataset size tried under fair scheduling
MaxId      == 2      \* largest process id handed to the DataLoader
MaxRounds  == 3      \* largest number of rounds handed to _enqueue_indices at once

\* os.cpu_count() of the host, used when num_processes is None
CpuCount == 2

\* ------------------------------------------------------------- inputs
\* the num_processes argument: None, or an integer
NumProcArgs ==
    {[none |-> TRUE, n |-> 0]} \cup {[none |-> FALSE, n |-> k] : k \in 0..MaxProcs}

\* what the environment may do wrong: nothing, the dataset raising while a
\* well-formed index group is fetched, or the sampler raising from next()
Faults == {"none", "dataset", "sampler"}

Min(a, b) == IF a < b THEN a ELSE b

\* number of index groups the batch sampler yields per pass (drop_last False)
NumGroups(n, b) == (n + b - 1) \div b

\* the g-th index group (g = 1..NumGroups) of the sequential strategy
Group(n, b, g) ==
    [k \in 1..Min(b, n - (g - 1) * b) |-> (g - 1) * b + (k - 1)]

\* ------------------------------------------------------------- messages
NoneMsg == [kind |-> "None", idxs |-> <<>>]
GroupMsg(g) == [kind |-> "group", idxs |-> g]
IndexMsg(i) == [kind |-> "index", idxs |-> <<i>>]

\* Python iteration over a list of index groups: one item per group
ItemsOfList(gs) == [k \in 1..Len(gs) |-> GroupMsg(gs[k])]
\* as ItemsOfGroup, but the first sample index is skipped
ItemsOfGroupSkipFirst(g) == [k \in 1..(Len(g) - 1) |-> IndexMsg(g[k + 1])]

\* Python iteration over ONE index group: one item per sample index
ItemsOfGroup(g) == [k \in 1..Len(g) |-> IndexMsg(g[k])]

VARIABLES
    \* configuration (fixed by Init)
    debug, np, transforms, sampler_arg, n_samples, batch_size, fault,
    \* Augmenter facade / AbstractAugmenter.__init__
    kind, num_processes, sampler_is_instance,
    \* _ParallelAugmenter fields
    processes, index_pipes, data_pipes, data_queued,
    index_pipe_counter, data_pipe_counter, abort_event, processes_running,
    \* multiprocessing objects
    events, index_chan, data_chan, closed_conns, proc_closed,
    \* worker processes
    wstate, wmsg, wevent,
    \* generator frame of __iter__
    pc, sampler_pos, all_sampled, recv_from, exc,
    \* history of the run
    pass, yielded, delivered, sent, shutdown_calls, result, pass_log,
    abort_seen, dispatched, collected,
    \* DataManager.drop_last, DataLoader._process_id, and the last call made
    \* on the data manager or the data loader
    drop_last, process_id, op

config == <<debug, np, transforms, sampler_arg, n_samples, batch_size, fault,
            kind, num_processes, sampler_is_instance>>
fields == <<processes, index_pipes, data_pipes, data_queued,
            index_pipe_counter, data_pipe_counter, abort_event,
            processes_running>>
mp     == <<events, index_chan, data_chan, closed_conns, proc_closed>>
wrk    == <<wstate, wmsg, wevent>>
frame  == <<pc, sampler_pos, all_sampled, recv_from, exc>>
hist   == <<pass, yielded, delivered, sent, shutdown_calls, result,
            pass_log, abort_seen, dispatched, collected>>
manager == <<drop_last, process_id, op>>
vars   == <<config, fields, mp, wrk, frame, hist, manager>>

\* ------------------------------------------------------------- facade
\* as ResolveAugmenterCls, but with "and" in place of "or"
ResolveAugmenterClsAnd(dbg, nproc) ==
    IF dbg /\ (~nproc.none /\ nproc.n = 0) THEN "Sequential" ELSE "Parallel"

\* Augmenter._resolve_augmenter_cls
ResolveAugmenterCls(dbg, nproc) ==
    IF dbg \/ (~nproc.none /\ nproc.n = 0) THEN "Sequential" ELSE "Parallel"

\* _ParallelAugmenter.__init__: None means the number of CPUs
ResolveNumProcesses(nproc) == IF nproc.none THEN CpuCount ELSE nproc.n

\* AbstractAugmenter.__init__: an element sampler is replaced by the CLASS
\* BatchSampler (not an instance); a batch sampler is kept
SamplerIsInstance(arg) == arg = "batch"

\* the sampler arguments tried: a batch sampler, an element sampler, and an
\* object that is neither
SamplerArgs == {"batch", "element", "invalid"}

\* as ConstructorRaises, but every sampler argument is accepted
ConstructorAccepts(arg) == FALSE

\* AbstractAugmenter.__init__, lines 113-117: ValueError for a sampler that
\* is neither a batch sampler nor an element sampler
ConstructorRaises(arg) == arg \notin {"batch", "element"}

\* DataLoader._process_id: None, or the id stored
NoId == [none |-> TRUE, id |-> 0]
Id(i) == [none |-> FALSE, id |-> i]

\* no call has been made on the data manager or the data loader
NoOp == [name |-> "none", arg |-> 0, before |-> NoId, raised |-> "none",
         ret |-> 0]

\* Augmenter.__iter__: yield from self._augmenter
YieldFrom(out, batch) == Append(out, batch)

NGroups == NumGroups(n_samples, batch_size)
SamplerGroup(g) == Group(n_samples, batch_size, g)

\* the augmenter as its constructors leave it; pc is "raised" if the
\* constructor raised, and then there is no augmenter to iterate
InitAugmenter ==
    /\ kind = ResolveAugmenterCls(debug, np)
    /\ num_processes = ResolveNumProcesses(np)
    /\ sampler_is_instance = SamplerIsInstance(sampler_arg)
    /\ pc = IF ConstructorRaises(sampler_arg) THEN "raised" ELSE "idle"
    /\ processes = <<>> /\ index_pipes = <<>> /\ data_pipes = <<>>
    /\ data_queued = <<>>
    /\ index_pipe_counter = 0 /\ data_pipe_counter = 0
    /\ abort_event = 0 /\ processes_running = FALSE
    /\ events = <<>> /\ index_chan = <<>> /\ data_chan = <<>>
    /\ closed_conns = {} /\ proc_closed = <<>>
    /\ wstate = <<>> /\ wmsg = <<>> /\ wevent = <<>>
    /\ sampler_pos = 0 /\ all_sampled = FALSE
    /\ recv_from = 0 /\ exc = "none"
    /\ pass = 0 /\ yielded = <<>> /\ delivered = <<>> /\ sent = <<>>
    /\ shutdown_calls = 0 /\ result = "none" /\ pass_log = <<>>
    /\ abort_seen = FALSE /\ dispatched = <<>> /\ collected = <<>>
    /\ process_id = NoId /\ op = NoOp

Init ==
    /\ debug \in BOOLEAN
    /\ np \in NumProcArgs
    /\ transforms \in BOOLEAN
    /\ sampler_arg \in SamplerArgs
    /\ n_samples \in 0..MaxSamples
    /\ batch_size \in 1..MaxBatch
    /\ fault \in Faults
    /\ drop_last = FALSE
    /\ InitAugmenter

\* ------------------------------------------------------------- helpers
N == num_processes

\* multiprocessing.Event.set / is_set
SetEvent(evs, e) == [evs EXCEPT ![e] = TRUE]
IsSet(e) == events[e]

\* as AbortEventSetter, but the new event starts set
AbortEventSetterNewSet(evs, cur) ==
    Append(IF cur # 0 /\ ~evs[cur] THEN SetEvent(evs, cur) ELSE evs, TRUE)

\* as AbortEventSetter, but the old event is cleared ("reset") and not set
AbortEventSetterClears(evs, cur) ==
    Append(IF cur # 0 THEN [evs EXCEPT ![cur] = FALSE] ELSE evs, FALSE)

\* abort_event setter (lines 195-210) followed by the new Event of line 219:
\* the old event, if any and unset, is set; the new one starts unset
AbortEventSetter(evs, cur) ==
    Append(IF cur # 0 /\ ~evs[cur] THEN SetEvent(evs, cur) ELSE evs, FALSE)

\* _next_index_pipe / _next_data_pipe: the new value of the cyclic counter
NextCounter(ctr) == (ctr + 1) % N

\* as EnqueueSlot, but always the first worker's slot
EnqueueSlotFirst(ctr) == 1

\* the slot of _data_queued that _enqueue_indices increments for counter ctr
EnqueueSlot(ctr) == ctr + 1

\* _enqueue_indices: for every item, take the next index pipe, count the
\* item as queued for that worker and send it
RECURSIVE Enqueue(_, _, _, _, _)
Enqueue(items, k, ctr, queued, chan) ==
    IF k > Len(items)
    THEN [ctr |-> ctr, queued |-> queued, chan |-> chan]
    ELSE Enqueue(items, k + 1, NextCounter(ctr),
                 [queued EXCEPT ![EnqueueSlot(ctr)] = @ + 1],
                 [chan EXCEPT ![index_pipes[ctr + 1]] = Append(@, items[k])])

EnqueueIndices(items) ==
    Enqueue(items, 1, index_pipe_counter, data_queued, index_chan)

\* _enqueue_indices: the slots (0-based) that n items go to, one after the
\* other, when the index-pipe counter is ctr
RECURSIVE EnqueueSlots(_, _)
EnqueueSlots(n, ctr) ==
    IF n = 0 THEN <<>> ELSE <<ctr>> \o EnqueueSlots(n - 1, NextCounter(ctr))

\* the sample indices carried by a sequence of messages, in order
RECURSIVE IdxsOf(_)
IdxsOf(items) ==
    IF items = <<>> THEN <<>> ELSE Head(items).idxs \o IdxsOf(Tail(items))

\* as AnyQueued, but only the first worker's counter is looked at
AnyQueuedFirst == data_queued[1] # 0

\* as AnyQueued, but _receive_data is called whatever the counters say
AnyQueuedAlways == TRUE

\* any(self._data_queued)
AnyQueued == \E k \in 1..Len(data_queued) : data_queued[k] # 0

\* _receive_data, lines 334-338: take the next data pipe, and again while the
\* worker taken has nothing queued (fuel bounds the search; found = FALSE is
\* the loop that never ends)
RECURSIVE SkipEmpty(_, _)
SkipEmpty(ctr, fuel) ==
    IF data_queued[ctr + 1] # 0
    THEN [pipe |-> ctr, found |-> TRUE, ctr |-> NextCounter(ctr)]
    ELSE IF fuel = 0
         THEN [pipe |-> ctr, found |-> FALSE, ctr |-> NextCounter(ctr)]
         ELSE SkipEmpty(NextCounter(ctr), fuel - 1)

\* as DecrementSlot, but read from the cursor, which has already advanced
DecrementSlotOfCursor(p) == ((p + 1) % num_processes) + 1

\* the slot of _data_queued decremented after receiving from data pipe p
DecrementSlot(p) == p + 1

\* the fields of a sample, and the sample the dataset holds at index i
FieldNames == {"data", "label"}
DatasetItem(i) == [f \in FieldNames |-> IF f = "data" THEN i ELSE i % 2]

\* DataLoader.__call__, lines 28-42: data_dict when the call returns.  The
\* loop over the samples never writes to data_dict (lines 36 and 38 write
\* into the sample's own mapping), so it is the empty mapping of line 30
RECURSIVE Concatenate(_, _, _)
Concatenate(data, k, data_dict) ==
    IF k > Len(data) THEN data_dict ELSE Concatenate(data, k + 1, data_dict)

DataDict(idxs) ==
    Concatenate([k \in 1..Len(idxs) |-> DatasetItem(idxs[k])], 1,
                [f \in {} |-> <<>>])

\* DataLoader.__call__: builds the batch but returns nothing (None)
DataLoaderCall(idxs) == "None"

Alive(w) == wstate[w] \in {"check", "poll", "work"}

\* the iteration is over: record how it ended
Finish(res) ==
    /\ pc' = "done"
    /\ result' = res
    /\ pass_log' = Append(pass_log,
                          [n |-> Len(yielded), result |-> res, body |-> exc])

\* ------------------------------------------------- _ParallelAugmenter
\* __iter__ lines 347-354: _start_processes, the stray _next_index_pipe,
\* and iter(self._sampler), which raises TypeError outside the try block
\* when the sampler is the class BatchSampler
StartBody ==
    /\ kind = "Parallel"
    /\ pass' = pass + 1
    /\ LET base == Len(processes)
           new  == [i \in 1..N |-> base + i]
       IN /\ events' = AbortEventSetter(events, abort_event)
          /\ abort_event' = Len(events) + 1
          /\ processes' = processes \o new
          /\ index_pipes' = index_pipes \o new
          /\ data_pipes' = data_pipes \o new
          /\ data_queued' = data_queued \o [i \in 1..N |-> 0]
          /\ index_chan' = index_chan \o [i \in 1..N |-> <<>>]
          /\ data_chan' = data_chan \o [i \in 1..N |-> <<>>]
          /\ proc_closed' = proc_closed \o [i \in 1..N |-> FALSE]
          /\ wstate' = wstate \o [i \in 1..N |-> "check"]
          /\ wmsg' = wmsg \o [i \in 1..N |-> NoneMsg]
          /\ wevent' = wevent \o [i \in 1..N |-> Len(events) + 1]
    /\ processes_running' = TRUE
    /\ index_pipe_counter' = NextCounter(index_pipe_counter)
    /\ yielded' = <<>> /\ delivered' = <<>> /\ sent' = <<>>
    /\ dispatched' = <<>> /\ collected' = <<>>
    /\ shutdown_calls' = 0 /\ abort_seen' = FALSE
    /\ sampler_pos' = 0 /\ all_sampled' = FALSE /\ exc' = "none"
    /\ IF sampler_is_instance
       THEN pc' = "prefill" /\ result' = "running" /\ pass_log' = pass_log
       ELSE /\ pc' = "done" /\ result' = "TypeError"
            /\ pass_log' = Append(pass_log,
                   [n |-> 0, result |-> "TypeError", body |-> "TypeError"])
    /\ UNCHANGED <<config, manager, data_pipe_counter, closed_conns, recv_from>>

\* the first iteration of the augmenter
StartIteration == pc = "idle" /\ StartBody

\* the augmenter is iterated again after an iteration has ended
Restart == pc = "done" /\ pass < MaxPasses /\ StartBody

\* lines 358-366: up to 2 * num_processes groups are taken from the sampler,
\* then enqueued, one message per group
Prefill ==
    /\ pc = "prefill"
    /\ LET want == Min(2 * N, NGroups)
       IN \E bad \in (IF fault = "sampler" THEN 0..want ELSE {0}) :
            IF bad # 0
            THEN \* next() raised at call number bad: nothing is enqueued
                 /\ sampler_pos' = bad - 1
                 /\ pc' = "except" /\ exc' = "SamplerError"
                 /\ UNCHANGED <<all_sampled, index_pipe_counter, data_queued,
                                index_chan, sent,
                           dispatched>>
            ELSE LET items == ItemsOfList([g \in 1..want |-> SamplerGroup(g)])
                     r == EnqueueIndices(items)
                 IN /\ sampler_pos' = want
                    /\ all_sampled' = (NGroups < 2 * N)
                    /\ index_pipe_counter' = r.ctr
                    /\ data_queued' = r.queued
                    /\ index_chan' = r.chan
                    /\ sent' = sent \o IdxsOf(items)
                    /\ dispatched' = dispatched \o
                          [k \in 1..want |->
                              [group |-> k, kind |-> items[k].kind,
                               slot |-> EnqueueSlots(want, index_pipe_counter)[k]]]
                    /\ pc' = "check" /\ exc' = exc
    /\ UNCHANGED <<config, manager, processes, index_pipes, data_pipes,
                   data_pipe_counter, abort_event, processes_running,
                   events, data_chan, closed_conns, proc_closed, wrk,
                   recv_from, pass, yielded, delivered, shutdown_calls,
                   result, pass_log, abort_seen, collected>>
\* as CheckAbort, but the loop goes on whatever the abort event says
CheckAbortIgnored ==
    /\ pc = "check"
    /\ pc' = "sample"
    /\ UNCHANGED <<config, manager, fields, mp, wrk, sampler_pos, all_sampled,
                   recv_from, exc, hist>>

\* lines 372-375: the abort check, once per iteration of the loop
CheckAbort ==
    /\ pc = "check"
    /\ IF IsSet(abort_event)
       THEN pc' = "except" /\ exc' = "RuntimeError" /\ abort_seen' = TRUE
       ELSE pc' = "sample" /\ exc' = exc /\ abort_seen' = abort_seen
    /\ UNCHANGED <<config, manager, fields, mp, wrk, sampler_pos, all_sampled,
                   recv_from, pass, yielded, delivered, sent, shutdown_calls,
                   result, pass_log, dispatched, collected>>

\* as Sample, but the loop takes nothing from the sampler before it collects
SampleSkipped ==
    /\ pc = "sample"
    /\ pc' = "collect"
    /\ UNCHANGED <<config, manager, fields, mp, wrk, sampler_pos, all_sampled,
                   recv_from, exc, hist>>

\* lines 379-384: one more index group is taken from the sampler and handed
\* to _enqueue_indices AS IS, which iterates over its sample indices
Sample ==
    /\ pc = "sample"
    /\ IF all_sampled
       THEN /\ pc' = "collect"
            /\ UNCHANGED <<sampler_pos, all_sampled, exc, index_pipe_counter,
                           data_queued, index_chan, sent,
                           dispatched>>
       ELSE IF sampler_pos = NGroups
       THEN \* StopIteration
            /\ all_sampled' = TRUE /\ pc' = "collect"
            /\ UNCHANGED <<sampler_pos, exc, index_pipe_counter,
                           data_queued, index_chan, sent,
                           dispatched>>
       ELSE \E bad \in (IF fault = "sampler" THEN BOOLEAN ELSE {FALSE}) :
            IF bad
            THEN /\ pc' = "except" /\ exc' = "SamplerError"
                 /\ UNCHANGED <<sampler_pos, all_sampled, index_pipe_counter,
                                data_queued, index_chan, sent,
                           dispatched>>
            ELSE LET idxs == SamplerGroup(sampler_pos + 1)
                     items == ItemsOfGroup(idxs)
                     r == EnqueueIndices(items)
                 IN /\ sampler_pos' = sampler_pos + 1
                    /\ index_pipe_counter' = r.ctr
                    /\ data_queued' = r.queued
                    /\ index_chan' = r.chan
                    /\ sent' = sent \o IdxsOf(items)
                    /\ dispatched' = dispatched \o
                          [k \in 1..Len(items) |->
                              [group |-> sampler_pos + 1,
                               kind |-> items[k].kind,
                               slot |-> EnqueueSlots(Len(items),
                                                     index_pipe_counter)[k]]]
                    /\ pc' = "collect"
                    /\ UNCHANGED <<all_sampled, exc>>
    /\ UNCHANGED <<config, manager, processes, index_pipes, data_pipes,
                   data_pipe_counter, abort_event, processes_running,
                   events, data_chan, closed_conns, proc_closed, wrk,
                   recv_from, pass, yielded, delivered, shutdown_calls,
                   result, pass_log, abort_seen, collected>>

\* lines 387-390 and 334-338: if anything is queued, _receive_data chooses
\* the data pipe to block on; otherwise the loop is left
Collect ==
    /\ pc = "collect"
    /\ IF AnyQueued
       THEN LET r == SkipEmpty(data_pipe_counter, N)
            IN /\ pc' = IF r.found THEN "recv" ELSE "spin"
               /\ recv_from' = r.pipe
               /\ data_pipe_counter' = r.ctr
       ELSE /\ pc' = "finally"
            /\ UNCHANGED <<recv_from, data_pipe_counter>>
    /\ UNCHANGED <<config, manager, processes, index_pipes, data_pipes, data_queued,
                   index_pipe_counter, abort_event, processes_running, mp,
                   wrk, sampler_pos, all_sampled, exc, hist>>

\* lines 341-345 and the yield of line 388: the blocking recv() returns when
\* the worker's data pipe holds a batch; the batch is yielded to the consumer
Receive ==
    /\ pc = "recv"
    /\ LET p == data_pipes[recv_from + 1]
       IN /\ data_chan[p] # <<>>
          /\ data_chan' = [data_chan EXCEPT ![p] = Tail(@)]
          /\ data_queued' =
                 [data_queued EXCEPT ![DecrementSlot(recv_from)] = @ - 1]
          /\ yielded' = Append(yielded, Head(data_chan[p]))
          /\ collected' = Append(collected, recv_from)
          /\ delivered' = YieldFrom(delivered, Head(data_chan[p]))
    /\ pc' = "yield"
    /\ UNCHANGED <<config, manager, processes, index_pipes, data_pipes,
                   index_pipe_counter, data_pipe_counter, abort_event,
                   processes_running, events, index_chan, closed_conns,
                   proc_closed, wrk, sampler_pos, all_sampled, recv_from,
                   exc, pass, sent, shutdown_calls, result, pass_log,
                   abort_seen, dispatched>>

\* the consumer asks for the next batch: the generator resumes after the yield
Resume ==
    /\ pc = "yield"
    /\ pc' = "check"
    /\ UNCHANGED <<config, manager, fields, mp, wrk, sampler_pos, all_sampled,
                   recv_from, exc, hist>>

\* as Abandon, but closing the generator ends it without its finally clause
AbandonSkipsFinally ==
    /\ pc = "yield"
    /\ pc' = "done" /\ exc' = "GeneratorExit" /\ result' = "GeneratorExit"
    /\ pass_log' = Append(pass_log, [n |-> Len(yielded),
                          result |-> "GeneratorExit", body |-> "GeneratorExit"])
    /\ UNCHANGED <<config, manager, fields, mp, wrk, sampler_pos, all_sampled,
                   recv_from, pass, yielded, delivered, sent, shutdown_calls,
                   abort_seen, dispatched, collected>>

\* the consumer closes the generator while it is suspended at the yield:
\* GeneratorExit is no Exception, so only the finally clause runs
Abandon ==
    /\ pc = "yield"
    /\ pc' = "finally" /\ exc' = "GeneratorExit"
    /\ UNCHANGED <<config, manager, fields, mp, wrk, sampler_pos, all_sampled,
                   recv_from, hist>>

\* lines 392-395: the except clause sets the abort event and re-raises
ExceptHandler ==
    /\ pc = "except"
    /\ events' = SetEvent(events, abort_event)
    /\ pc' = "finally"
    /\ UNCHANGED <<config, manager, fields, index_chan, data_chan, closed_conns,
                   proc_closed, wrk, sampler_pos, all_sampled, recv_from,
                   exc, hist>>

\* lines 397-400 and 253-255: the finally clause calls _shutdown_processes,
\* which first sets the abort event
Finally ==
    /\ pc = "finally"
    /\ IF processes_running
       THEN /\ shutdown_calls' = shutdown_calls + 1
            /\ events' = SetEvent(events, abort_event)
            /\ pc' = "shutdown"
            /\ UNCHANGED <<result, pass_log>>
       ELSE /\ Finish(IF exc = "none" THEN "StopIteration" ELSE exc)
            /\ UNCHANGED <<shutdown_calls, events>>
    /\ UNCHANGED <<config, manager, fields, index_chan, data_chan, closed_conns,
                   proc_closed, wrk, sampler_pos, all_sampled, recv_from,
                   exc, pass, yielded, delivered, sent, abort_seen,
                   dispatched, collected>>

\* lines 257-266: the first turn of the loop over the workers.  None is sent
\* to the first worker, then Process.close() is called BEFORE join(): close()
\* raises ValueError while the process is running, and once close() has
\* succeeded join() raises ValueError (the process object is closed).  Either
\* way the exception leaves _shutdown_processes and __iter__; lines 268-281
\* are not reached for num_processes >= 1.
ShutdownLoop ==
    /\ pc = "shutdown"
    /\ IF processes = <<>>
       THEN \* nothing to loop over: lines 279-281
            /\ processes_running' = FALSE
            /\ data_pipe_counter' = 0 /\ index_pipe_counter' = 0
            /\ Finish(IF exc = "none" THEN "StopIteration" ELSE exc)
            /\ UNCHANGED <<index_chan, proc_closed>>
       ELSE /\ index_chan' =
                  [index_chan EXCEPT ![index_pipes[1]] = Append(@, NoneMsg)]
            /\ proc_closed' =
                  [proc_closed EXCEPT ![processes[1]] = @ \/ ~Alive(processes[1])]
            /\ Finish("ValueError")
            /\ UNCHANGED <<processes_running, data_pipe_counter,
                           index_pipe_counter>>
    /\ UNCHANGED <<config, manager, processes, index_pipes, data_pipes, data_queued,
                   abort_event, events, data_chan, closed_conns, wrk,
                   sampler_pos, all_sampled, recv_from, exc, pass, yielded,
                   delivered, sent, shutdown_calls, abort_seen, dispatched,
                   collected>>

\* ------------------------------------------------------ _WorkerProcess
\* as WorkerCheck, but the abort event is not looked at
WorkerCheckIgnoresAbort(w) ==
    /\ wstate[w] = "check"
    /\ wstate' = [wstate EXCEPT ![w] = "poll"]
    /\ UNCHANGED <<config, manager, fields, mp, wmsg, wevent, frame, hist>>

\* run, lines 59-61: the abort check at the top of the loop
WorkerCheck(w) ==
    /\ wstate[w] = "check"
    /\ wstate' = [wstate EXCEPT ![w] =
                     IF IsSet(wevent[w]) THEN "exit_abort" ELSE "poll"]
    /\ UNCHANGED <<config, manager, fields, mp, wmsg, wevent, frame, hist>>

\* as WorkerPoll, but None is taken for an index group like any other
WorkerPollNoSentinel(w) ==
    /\ wstate[w] = "poll"
    /\ IF index_chan[w] = <<>>
       THEN /\ wstate' = [wstate EXCEPT ![w] = "check"]
            /\ UNCHANGED <<index_chan, wmsg>>
       ELSE /\ index_chan' = [index_chan EXCEPT ![w] = Tail(@)]
            /\ wmsg' = [wmsg EXCEPT ![w] = Head(index_chan[w])]
            /\ wstate' = [wstate EXCEPT ![w] = "work"]
    /\ UNCHANGED <<config, manager, fields, events, data_chan, closed_conns,
                   proc_closed, wevent, frame, hist>>

\* run, lines 65-70: poll with a timeout; a message is received if there is
\* one, and None ends the loop
WorkerPoll(w) ==
    /\ wstate[w] = "poll"
    /\ IF index_chan[w] = <<>>
       THEN /\ wstate' = [wstate EXCEPT ![w] = "check"]
            /\ UNCHANGED <<index_chan, wmsg>>
       ELSE /\ index_chan' = [index_chan EXCEPT ![w] = Tail(@)]
            /\ wmsg' = [wmsg EXCEPT ![w] = Head(index_chan[w])]
            /\ wstate' = [wstate EXCEPT ![w] =
                   IF Head(index_chan[w]).kind = "None"
                   THEN "exit_clean" ELSE "work"]
    /\ UNCHANGED <<config, manager, fields, events, data_chan, closed_conns,
                   proc_closed, wevent, frame, hist>>

\* whether fetch + transform of a received message raises: iterating over a
\* bare sample index raises TypeError in DataLoader.__call__ (line 28); the
\* dataset may raise (fault); transforms(**None) raises TypeError (line 77)
Raises(msg, dataset_raises) ==
    \/ msg.kind = "index"
    \/ dataset_raises
    \/ (transforms /\ DataLoaderCall(msg.idxs) = "None")

\* as WorkerWork, but an exception is swallowed: the batch is skipped and
\* the worker goes on with its loop
WorkerWorkSwallows(w) ==
    /\ wstate[w] = "work"
    /\ \E dataset_raises \in
             (IF fault = "dataset" /\ wmsg[w].kind = "group"
              THEN BOOLEAN ELSE {FALSE}) :
         IF Raises(wmsg[w], dataset_raises)
         THEN UNCHANGED data_chan
         ELSE data_chan' = [data_chan EXCEPT ![w] =
                     Append(@, [data |-> DataLoaderCall(wmsg[w].idxs),
                                of |-> wmsg[w].idxs])]
    /\ wstate' = [wstate EXCEPT ![w] = "check"]
    /\ wmsg' = [wmsg EXCEPT ![w] = NoneMsg]
    /\ UNCHANGED <<config, manager, fields, events, index_chan, closed_conns,
                   proc_closed, wevent, frame, hist>>

\* run, lines 72-83: load, transform and send the batch; any exception sets
\* the abort event and ends the process
WorkerWork(w) ==
    /\ wstate[w] = "work"
    /\ \E dataset_raises \in
             (IF fault = "dataset" /\ wmsg[w].kind = "group"
              THEN BOOLEAN ELSE {FALSE}) :
         IF Raises(wmsg[w], dataset_raises)
         THEN /\ events' = SetEvent(events, wevent[w])
              /\ wstate' = [wstate EXCEPT ![w] = "exit_error"]
              /\ UNCHANGED data_chan
         ELSE /\ data_chan' = [data_chan EXCEPT ![w] =
                     Append(@, [data |-> DataLoaderCall(wmsg[w].idxs),
                                of |-> wmsg[w].idxs])]
              /\ wstate' = [wstate EXCEPT ![w] = "check"]
              /\ UNCHANGED events
    /\ wmsg' = [wmsg EXCEPT ![w] = NoneMsg]
    /\ UNCHANGED <<config, manager, fields, index_chan, closed_conns, proc_closed,
                   wevent, frame, hist>>

\* ------------------------------------------------ _SequentialAugmenter
\* __iter__ line 432: iter(self._sampler)
SeqStartBody ==
    /\ kind = "Sequential"
    /\ pass' = pass + 1
    /\ yielded' = <<>> /\ delivered' = <<>> /\ sent' = <<>>
    /\ dispatched' = <<>> /\ collected' = <<>>
    /\ shutdown_calls' = 0 /\ abort_seen' = FALSE
    /\ sampler_pos' = 0 /\ all_sampled' = FALSE /\ exc' = "none"
    /\ IF sampler_is_instance
       THEN pc' = "seq_loop" /\ result' = "running" /\ pass_log' = pass_log
       ELSE /\ pc' = "done" /\ result' = "TypeError"
            /\ pass_log' = Append(pass_log,
                   [n |-> 0, result |-> "TypeError", body |-> "TypeError"])
    /\ UNCHANGED <<config, manager, fields, mp, wrk, recv_from>>

SeqStart == pc = "idle" /\ SeqStartBody

SeqRestart == pc = "done" /\ pass < MaxPasses /\ SeqStartBody

\* __iter__ lines 435-444: the next index group is loaded, transformed and
\* yielded on the calling thread
SeqNext ==
    /\ pc = "seq_loop"
    /\ IF sampler_pos = NGroups
       THEN /\ Finish("StopIteration")
            /\ UNCHANGED <<sampler_pos, yielded, delivered, sent, exc>>
       ELSE \E bad \in (IF fault = "none" THEN {FALSE} ELSE BOOLEAN) :
            LET msg == GroupMsg(SamplerGroup(sampler_pos + 1))
                fetched == IF bad /\ fault = "sampler" THEN <<>> ELSE msg.idxs
            IN IF (bad /\ fault = "sampler")
                  \/ Raises(msg, bad /\ fault = "dataset")
               THEN /\ exc' = IF bad /\ fault = "sampler"
                              THEN "SamplerError" ELSE "TypeError"
                    /\ sent' = sent \o fetched
                    /\ pc' = "done" /\ result' = exc'
                    /\ pass_log' = Append(pass_log, [n |-> Len(yielded),
                                       result |-> exc', body |-> exc'])
                    /\ UNCHANGED <<sampler_pos, yielded, delivered>>
               ELSE /\ sampler_pos' = sampler_pos + 1
                    /\ sent' = sent \o fetched
                    /\ yielded' = Append(yielded,
                          [data |-> DataLoaderCall(msg.idxs), of |-> msg.idxs])
                    /\ delivered' = YieldFrom(delivered,
                          [data |-> DataLoaderCall(msg.idxs), of |-> msg.idxs])
                    /\ pc' = "seq_yield"
                    /\ UNCHANGED <<exc, result, pass_log>>
    /\ UNCHANGED <<config, manager, fields, mp, wrk, all_sampled, recv_from,
                   pass, shutdown_calls, abort_seen, dispatched, collected>>

\* the consumer asks the sequential generator for the next batch
SeqResume ==
    /\ pc = "seq_yield"
    /\ pc' = "seq_loop"
    /\ UNCHANGED <<config, manager, fields, mp, wrk, sampler_pos, all_sampled,
                   recv_from, exc, hist>>

\* ------------------------------------------------------------- system
Workers == 1..Len(wstate)

Coordinator ==
    \/ StartIteration \/ Prefill \/ CheckAbort \/ Sample \/ Collect
    \/ Receive \/ Resume \/ Abandon \/ ExceptHandler \/ Finally
    \/ ShutdownLoop

Sequential == SeqStart \/ SeqNext \/ SeqResume

Worker(w) == WorkerCheck(w) \/ WorkerPoll(w) \/ WorkerWork(w)

\* one iteration of the augmenter, with every fault of the environment
Next == Coordinator \/ Sequential \/ (\E w \in Workers : Worker(w))

Spec == Init /\ [][Next]_vars

\* the most worker processes that one pass starts
MaxWorkers == IF MaxProcs > CpuCount THEN MaxProcs ELSE CpuCount

\* every worker is an operating-system process of its own: one that can
\* take a step is not kept from taking it for ever
FairWorkers == \A w \in 1..MaxWorkers : WF_vars(w \in Workers /\ Worker(w))

InitFair == Init /\ n_samples <= MaxSamplesFair

\* one iteration of the augmenter with its workers scheduled fairly
SpecFair == InitFair /\ [][Next]_vars /\ FairWorkers

\* the augmenter iterated up to MaxPasses times, the environment faultless
InitRepeat ==
    /\ Init /\ fault = "none" /\ (np.none \/ np.n <= MaxProcsRepeat)
    /\ n_samples <= MaxSamplesRepeat

NextRepeat == Next \/ Restart \/ SeqRestart

SpecRepeat == InitRepeat /\ [][NextRepeat]_vars

\* ------------------------------------------- DataLoader and DataManager
\* as ProcessIdIsSet, but by truth value: the id 0 counts as not set
ProcessIdTruthy(pid) == ~pid.none /\ pid.id # 0

\* process_id setter, line 54: self._process_id is not None
ProcessIdIsSet(pid) == ~pid.none

\* process_id setter, lines 52-57
SetProcessId(new_id) ==
    /\ IF ProcessIdIsSet(process_id)
       THEN /\ process_id' = process_id
            /\ op' = [name |-> "set", arg |-> new_id, before |-> process_id,
                      raised |-> "AttributeError", ret |-> 0]
       ELSE /\ process_id' = Id(new_id)
            /\ op' = [name |-> "set", arg |-> new_id, before |-> process_id,
                      raised |-> "none", ret |-> 0]
    /\ UNCHANGED <<config, fields, mp, wrk, frame, hist, drop_last>>

\* process_id property, lines 46-50
GetProcessId ==
    /\ op' = [name |-> "get", arg |-> 0, before |-> process_id,
              raised |-> "none",
              ret |-> IF process_id.none THEN 0 ELSE process_id.id]
    /\ UNCHANGED <<config, fields, mp, wrk, frame, hist, drop_last,
                   process_id>>

\* as NBatches, but the truncated batch is counted whatever drop_last says
NBatchesKeepsLast(n, b, dl) == (n \div b) + (IF n % b # 0 THEN 1 ELSE 0)

\* DataManager.n_batches, lines 420-426
NBatches(n, b, dl) == (n \div b) + (IF n % b # 0 /\ ~dl THEN 1 ELSE 0)

\* DataManager.n_batches is read; n_samples is len(self.sampler)
ReadNBatches ==
    /\ op' = IF n_samples > 0
             THEN [name |-> "n_batches", arg |-> 0, before |-> process_id,
                   raised |-> "none",
                   ret |-> NBatches(n_samples, batch_size, drop_last)]
             ELSE [name |-> "n_batches", arg |-> 0, before |-> process_id,
                   raised |-> "AssertionError", ret |-> 0]
    /\ UNCHANGED <<config, fields, mp, wrk, frame, hist, drop_last,
                   process_id>>

\* a data manager over n_samples samples with its default element sampler,
\* and the data loader it creates, before any batch generator is iterated
InitData ==
    /\ debug = FALSE
    /\ np = [none |-> FALSE, n |-> 0]
    /\ transforms = FALSE
    /\ sampler_arg = "element"
    /\ n_samples \in 0..MaxSamples
    /\ batch_size \in 1..MaxBatch
    /\ fault = "none"
    /\ drop_last \in BOOLEAN
    /\ InitAugmenter

NextData == (\E i \in 0..MaxId : SetProcessId(i)) \/ GetProcessId \/ ReadNBatches

\* calls on the data manager and on its data loader, in any order
SpecData == InitData /\ [][NextData]_vars
\* ------------------------------------------------------------- claims
\* the workers of the pool started last
PoolWorkers == {w \in Workers : wevent[w] = abort_event}

\* a worker of the current pool raised while fetching or transforming
WorkerRaised == \E w \in PoolWorkers : wstate[w] = "exit_error"

\* the coordinator waits in recv() on a data pipe that is empty and whose
\* only writer, the worker, has ended: the call never returns
BlockedForever ==
    /\ pc = "recv"
    /\ data_chan[data_pipes[recv_from + 1]] = <<>>
    /\ ~Alive(processes[recv_from + 1])

\* C1: once a worker has raised during fetch/transform, the coordinator is
\* never blocked for ever in its receive and its iteration does not end
\* normally: it ends with the pool-abort error.
C1_WorkerFailureAbortsIteration ==
    WorkerRaised =>
        /\ ~BlockedForever
        /\ (pc = "done" /\ exc # "GeneratorExit" => result # "StopIteration")

\* C2: a pass of the parallel augmenter that the environment does not
\* disturb (no fault of dataset or sampler, no transform, a batch sampler,
\* the consumer takes every batch) has yielded, when it ends, as many
\* batches as the sampler has index groups.
C2_BatchCountEqualsGroups ==
    (/\ kind = "Parallel" /\ pc = "done" /\ fault = "none" /\ ~transforms
     /\ sampler_is_instance /\ exc # "GeneratorExit")
        => Len(yielded) = NGroups

\* the sentinel None was sent to worker w: it is in its index pipe, or the
\* worker has taken it (only then does a worker end cleanly)
SentinelSent(w) ==
    \/ wstate[w] = "exit_clean"
    \/ \E k \in 1..Len(index_chan[w]) : index_chan[w][k] = NoneMsg

\* C3: when _shutdown_processes is over, every worker of the pool has been
\* sent the sentinel, is terminated (joined), and both its connections are
\* closed.
C3_ShutdownStopsEveryWorker ==
    (pc = "done" /\ shutdown_calls > 0) =>
        \A w \in PoolWorkers :
            /\ SentinelSent(w)
            /\ ~Alive(w)
            /\ {<<"index", w>>, <<"data", w>>} \subseteq closed_conns

\* C4: when an iteration of the parallel augmenter has ended, whose pool
\* was started, _shutdown_processes has run exactly once.
C4_ShutdownExactlyOnce ==
    (kind = "Parallel" /\ pc = "done") => shutdown_calls = 1

\* C5: after a first pass that collected every batch and left its loop
\* normally, a second pass is never blocked for ever, and when it ends it
\* has ended normally with the first pass's number of batches.
C5_SecondPassSameCount ==
    (kind = "Parallel" /\ pass = 2 /\ pass_log[1].body = "none") =>
        /\ ~BlockedForever
        /\ (pc = "done" /\ exc # "GeneratorExit" =>
                Len(yielded) = pass_log[1].n)
\* how often sample index i occurs in a sequence of sample indices
Count(seq, i) == Cardinality({k \in 1..Len(seq) : seq[k] = i})
SameBag(a, b) ==
    /\ Len(a) = Len(b)
    /\ \A i \in 0..MaxSamples : Count(a, i) = Count(b, i)

\* the sample indices of all index groups of a pass, group after group
AllIdxs == IdxsOf(ItemsOfList([g \in 1..NGroups |-> SamplerGroup(g)]))

\* C6: when the parallel augmenter has taken every index group from the
\* sampler, the sample indices it has sent to the workers are, as a multiset,
\* those of all index groups, each once (n_samples in total); the same holds
\* of the indices the sequential augmenter has fetched when it ends normally.
C6_SameIndicesAsSequential ==
    (\/ kind = "Parallel" /\ all_sampled
     \/ kind = "Sequential" /\ result = "StopIteration")
        => SameBag(sent, AllIdxs) /\ Len(sent) = n_samples

C6_Witness ==
    /\ kind = "Parallel" /\ all_sampled /\ num_processes = 2
    /\ NGroups > 2 * num_processes /\ batch_size = 1
    /\ SameBag(sent, AllIdxs)

\* C7: a coordinator step that finds the abort event set at its check raises
\* the pool-abort RuntimeError; from then on no index group is taken from the
\* sampler, nothing is dispatched and no batch is yielded in the pass, and
\* when the iteration has ended _shutdown_processes has run.
C7_AbortCheckIsFatal ==
    [][/\ (pc = "check" /\ pc' # "check" /\ IsSet(abort_event))
            => (pc' = "except" /\ exc' = "RuntimeError" /\ abort_seen')
       /\ abort_seen =>
            /\ sampler_pos' = sampler_pos /\ sent' = sent
            /\ data_queued' = data_queued /\ yielded' = yielded
            /\ pc' \in {"except", "finally", "shutdown", "done"}
       /\ (abort_seen /\ pc' = "done") => shutdown_calls' = 1]_vars

C7_Witness ==
    /\ abort_seen /\ pc = "done" /\ shutdown_calls = 1
    /\ sampler_pos < NGroups /\ data_queued[1] > 0

\* C8: an abort event that is set stays set, and every start of a pool
\* installs a new event, unset, which the workers started with it hold.
C8_AbortFlagMonotonic ==
    [][/\ \A e \in 1..Len(events) : events[e] => events'[e]
       /\ abort_event' # abort_event =>
            /\ abort_event' = Len(events) + 1
            /\ Len(events') = Len(events) + 1
            /\ ~events'[abort_event']
            /\ \A w \in (Len(wstate) + 1)..Len(wstate') :
                   wevent'[w] = abort_event']_vars

C8_Witness ==
    /\ pass = 2 /\ kind = "Parallel" /\ Len(events) = 2
    /\ events[1] /\ ~events[2] /\ pc = "check"

\* C9: no pending counter is ever negative.
C9_PendingNonNegative ==
    \A k \in 1..Len(data_queued) : data_queued[k] >= 0

C9_Witness ==
    /\ pc = "yield" /\ num_processes = 2
    /\ data_queued[recv_from + 1] = 0
    /\ \E k \in 1..Len(data_queued) : data_queued[k] > 0

\* C10: the facade wraps the sequential augmenter exactly if debug mode is on
\* or num_processes is 0, and otherwise the parallel augmenter with that
\* num_processes; what the facade yields is what the wrapped augmenter
\* yields, in the same order.
C10_FacadeSelectsAndDelegates ==
    /\ kind = "Sequential" <=> (debug \/ (~np.none /\ np.n = 0))
    /\ kind = "Parallel" <=> ~(debug \/ (~np.none /\ np.n = 0))
    /\ (kind = "Parallel" /\ ~np.none) => num_processes = np.n
    /\ delivered = yielded

C10_Witness ==
    /\ kind = "Sequential" /\ ~debug /\ ~np.none /\ np.n = 0
    /\ Len(delivered) = 2 /\ delivered = yielded

\* the batch mapping of an index group: for every field, the values of the
\* samples at the group's indices, in index order
BatchMapping(idxs) ==
    [f \in FieldNames |-> [k \in 1..Len(idxs) |-> DatasetItem(idxs[k])[f]]]

\* C11: every batch that a call of the DataLoader on an index group produced
\* is a value (not None), and it is the batch mapping of that group: for
\* each field the values of the samples at the group's indices, in order.
C11_CallReturnsBatchMapping ==
    \A k \in 1..Len(yielded) :
        /\ yielded[k].data # "None"
        /\ DataDict(yielded[k].of) = BatchMapping(yielded[k].of)

\* the least k with k * b >= n, and the greatest k with k * b <= n
CeilDiv(n, b) == CHOOSE k \in 0..n : k * b >= n /\ (k - 1) * b < n
FloorDiv(n, b) == CHOOSE k \in 0..n : k * b <= n /\ (k + 1) * b > n

\* C12: for n_samples >= 1 and batch_size >= 1, n_batches is
\* ceil(n_samples / batch_size) when drop_last is false and
\* floor(n_samples / batch_size) when drop_last is true.
C12_NBatchesRounding ==
    (op.name = "n_batches" /\ n_samples >= 1)
        => /\ op.raised = "none"
           /\ op.ret = IF drop_last THEN FloorDiv(n_samples, batch_size)
                                    ELSE CeilDiv(n_samples, batch_size)

C12_Witness ==
    /\ op.name = "n_batches" /\ drop_last
    /\ n_samples = 5 /\ batch_size = 2 /\ op.ret = 2

\* C13: setting process_id on a loader whose id is already set (to any id,
\* 0 included) raises and leaves the stored id as it was; setting it on a
\* fresh loader succeeds and stores the id; reading it before any set
\* returns 0.
C13_ProcessIdSetOnce ==
    /\ op.name = "set" =>
          IF ~op.before.none
          THEN op.raised = "AttributeError" /\ process_id = op.before
          ELSE op.raised = "none" /\ process_id = Id(op.arg)
    /\ (op.name = "get" /\ op.before.none) => op.ret = 0

C13_Witness ==
    /\ op.name = "set" /\ op.raised = "AttributeError"
    /\ op.before = Id(0) /\ op.arg = 1 /\ process_id = Id(0)

\* C14: an augmenter constructed with a sampler that is neither a batch
\* sampler nor an element sampler raised in its constructor: there is no
\* augmenter, no worker was ever started and no iteration ever began.
C14_InvalidSamplerRaisesAtConstruction ==
    sampler_arg \notin {"batch", "element"}
        => /\ pc = "raised"
           /\ pass = 0 /\ ~processes_running
           /\ processes = <<>> /\ wstate = <<>> /\ yielded = <<>>

C14_Witness ==
    /\ sampler_arg = "invalid" /\ kind = "Parallel" /\ num_processes = 2
    /\ pc = "raised" /\ processes = <<>>

\* C15: an augmenter constructed with an element sampler holds a batch
\* sampler instance wrapping it, so that iterating the augmenter's sampler
\* yields index groups; a batch sampler is kept as it is.
C15_ElementSamplerWrapped ==
    (sampler_arg \in {"batch", "element"} /\ pass >= 1)
        => sampler_is_instance

\* C16: index groups go to the workers in slot order starting at slot 0: the
\* j-th group taken from the sampler (j counted from 0) is dispatched to
\* slot j mod num_processes.
C16_RoundRobinFromSlotZero ==
    \A j \in 1..Len(dispatched) :
        dispatched[j].slot = (dispatched[j].group - 1) % num_processes

\* the groups 1..n as a list handed to _enqueue_indices
GroupList(n) == [i \in 1..n |-> GroupMsg(<<i>>)]

\* C17: when every pending counter is zero and k * num_processes groups are
\* dispatched by one call of _enqueue_indices, every counter of the pool is
\* k afterwards (k = 0..MaxRounds); after the prefill of 2 * num_processes
\* groups, before anything is collected, every counter is 2.
C17_EvenAfterRounds ==
    /\ (pc = "prefill" /\ \A w \in 1..Len(data_queued) : data_queued[w] = 0)
          => \A k \in 0..MaxRounds :
                LET r == EnqueueIndices(GroupList(k * num_processes))
                IN \A w \in 1..num_processes : r.queued[w] = k
    /\ (pc = "check" /\ pass = 1 /\ yielded = <<>>
            /\ sampler_pos = 2 * num_processes)
          => \A w \in 1..num_processes : data_queued[w] = 2

C17_Witness ==
    /\ pc = "check" /\ pass = 1 /\ yielded = <<>>
    /\ num_processes = 2 /\ sampler_pos = 4
    /\ data_queued = <<2, 2>> /\ Len(dispatched) = 4

\* the groups that have been dispatched, by their number
DispatchedGroups == {dispatched[j].group : j \in 1..Len(dispatched)}

\* C18 as stated: in a pass whose sampler has at least 2 * num_processes
\* groups, when the coordinator collects its first batch exactly
\* 2 * num_processes groups have been requested from the sampler and
\* dispatched.
C18_ExactlyTwoPerWorkerAtFirstCollect ==
    (pc = "recv" /\ yielded = <<>> /\ NGroups >= 2 * num_processes)
        => /\ sampler_pos = 2 * num_processes
           /\ DispatchedGroups = 1..(2 * num_processes)

\* C18 amended: in such a pass the prefill requests and dispatches exactly
\* 2 * num_processes groups before the loop is entered, and the loop requests
\* and dispatches one more group, if the sampler has one, before it collects:
\* at the first collection min(groups, 2 * num_processes + 1) groups have
\* been requested and dispatched.
C18_PrefillThenOneMore ==
    /\ (pc = "check" /\ yielded = <<>> /\ NGroups >= 2 * num_processes)
          => /\ sampler_pos = 2 * num_processes
             /\ DispatchedGroups = 1..(2 * num_processes)
             /\ Len(dispatched) = 2 * num_processes
    /\ (pc = "recv" /\ yielded = <<>> /\ NGroups >= 2 * num_processes)
          => /\ sampler_pos = Min(NGroups, 2 * num_processes + 1)
             /\ DispatchedGroups = 1..sampler_pos

C18_Witness ==
    /\ pc = "recv" /\ yielded = <<>> /\ num_processes = 1
    /\ NGroups = 3 /\ sampler_pos = 3 /\ DispatchedGroups = {1, 2, 3}

RECURSIVE SumSeq(_)
SumSeq(q) == IF q = <<>> THEN 0 ELSE Head(q) + SumSeq(Tail(q))

\* C19: a loop iteration that takes a group from the sampler dispatches it
\* as exactly one message (the pending counters grow by exactly 1 in total),
\* and the collection that follows takes exactly one batch (they shrink by
\* exactly 1), so the total is the same after the iteration as before it.
C19_OneInOneOut ==
    [][/\ (pc = "sample" /\ sampler_pos' = sampler_pos + 1)
            => /\ SumSeq(data_queued') = SumSeq(data_queued) + 1
               /\ Len(dispatched') = Len(dispatched) + 1
       /\ (pc = "recv" /\ pc' = "yield")
            => /\ SumSeq(data_queued') = SumSeq(data_queued) - 1
               /\ Len(yielded') = Len(yielded) + 1]_vars

\* C20: when the coordinator blocks in recv() on a worker's data pipe, that
\* worker's pending counter is at least 1; _receive_data is entered only
\* when some counter is non-zero, and its skip loop then finds a worker with
\* something pending within num_processes steps.
C20_ReceiveOnlyWhenPending ==
    /\ pc = "recv" => data_queued[recv_from + 1] >= 1
    /\ pc # "spin"
    /\ (pc = "collect" /\ AnyQueued)
          => SkipEmpty(data_pipe_counter, num_processes - 1).found

C20_Witness ==
    /\ pc = "recv" /\ num_processes = 2
    /\ data_queued[recv_from + 1] >= 1
    /\ data_queued[((recv_from + 1) % 2) + 1] = 0

\* the messages dispatched in the pass to the index pipe of slot k, and the
\* batches received in the pass from the data pipe of slot k (k from 0)
DispatchedTo(k) ==
    Cardinality({j \in 1..Len(dispatched) : dispatched[j].slot = k})
ReceivedFrom(k) ==
    Cardinality({j \in 1..Len(collected) : collected[j] = k})

\* C21: at every point of a pass, the pending counter of every worker is the
\* number of messages dispatched to its index pipe in the pass minus the
\* number of batches received from its data pipe in the pass.
C21_PendingIsDispatchedMinusReceived ==
    (kind = "Parallel" /\ pass >= 1) =>
        \A k \in 1..Len(data_queued) :
            data_queued[k] = DispatchedTo(k - 1) - ReceivedFrom(k - 1)

\* the coordinator is inside the try block of __iter__ or in its except or
\* finally clause, before _shutdown_processes is called
BeforeShutdown ==
    pc \in {"check", "sample", "collect", "recv", "yield", "except", "finally"}

\* no step of the coordinator or of a worker puts a message on an index pipe
NothingSent ==
    \A c \in 1..Len(index_chan) : Len(index_chan'[c]) <= Len(index_chan[c])

\* C22: once the sampler has signalled exhaustion in a pass, nothing is put
\* on any index pipe before shutdown (no index group, no sentinel), the
\* coordinator goes on to receive whenever a pending counter is non-zero,
\* and it leaves its loop normally only when every pending counter is zero.
C22_DrainAfterExhaustion ==
    [][/\ (all_sampled /\ BeforeShutdown) => NothingSent
       /\ (all_sampled /\ pc = "collect" /\ pc' # pc)
            => IF \E k \in 1..Len(data_queued) : data_queued[k] # 0
               THEN pc' = "recv"
               ELSE pc' = "finally" /\ exc' = "none"
       /\ (pc' = "finally" /\ exc' = "none")
            => \A k \in 1..Len(data_queued') : data_queued'[k] = 0]_vars

C22_Witness ==
    /\ all_sampled /\ pc = "finally" /\ exc = "none"
    /\ num_processes = 2 /\ Len(yielded) = 3
    /\ \A k \in 1..Len(data_queued) : data_queued[k] = 0

\* C23: when _shutdown_processes is over, the lists of processes, index
\* pipes, data pipes and pending counters are empty, both cyclic counters
\* are 0 and the processes-running marker is false.
C23_ShutdownResetsBookkeeping ==
    (pc = "done" /\ shutdown_calls > 0) =>
        /\ processes = <<>> /\ index_pipes = <<>> /\ data_pipes = <<>>
        /\ data_queued = <<>>
        /\ index_pipe_counter = 0 /\ data_pipe_counter = 0
        /\ ~processes_running

\* C24: a worker whose fetch or transform raises sets the abort event of its
\* pool, sends nothing for the message it was working on, and has ended for
\* good; a message whose fetch or transform must raise is never answered
\* with a batch or passed over.
C24_WorkerFailureSetsAbort ==
    [][\A w \in Workers :
         /\ (wstate[w] = "work" /\ wstate'[w] # "work") =>
               IF wstate'[w] = "exit_error"
               THEN events'[wevent[w]] /\ data_chan' = data_chan
               ELSE /\ ~Raises(wmsg[w], FALSE)
                    /\ wstate'[w] = "check"
                    /\ data_chan'[w] = Append(data_chan[w],
                          [data |-> DataLoaderCall(wmsg[w].idxs),
                           of |-> wmsg[w].idxs])
         /\ wstate[w] = "exit_error" =>
               wstate'[w] = "exit_error" /\ events[wevent[w]]]_vars

C24_Witness ==
    /\ fault = "dataset" /\ ~transforms /\ num_processes = 2
    /\ \A j \in 1..Len(dispatched) : dispatched[j].kind = "group"
    /\ \E w \in Workers :
          /\ wstate[w] = "exit_error" /\ events[wevent[w]]
          /\ data_chan[w] = <<>> /\ collected = <<>>

\* C25: once the abort event of a pool is set, every worker of the pool that
\* is still running eventually ends, also one that has nothing to do and
\* gets no message; so after one worker has failed all the others end.
C25_AbortedWorkersTerminate ==
    \A w \in 1..MaxWorkers :
        (w \in Workers /\ events[wevent[w]] /\ Alive(w))
            ~> (w \in Workers /\ ~Alive(w))

C25_Witness ==
    /\ num_processes = 2 /\ Len(wstate) = 2
    /\ \E w \in Workers, v \in Workers :
          /\ wstate[w] = "exit_error"
          /\ wstate[v] = "exit_abort" /\ index_chan[v] = <<>>
          /\ DispatchedTo(v - 1) = 0

\* C26: a running worker that takes the sentinel None from its index pipe
\* ends at once and cleanly: it sends no batch, does not call the data
\* loader and does not set the abort event; and it stays ended.
C26_SentinelEndsWorkerCleanly ==
    [][\A w \in Workers :
         /\ (/\ wstate[w] = "poll" /\ wstate'[w] # "poll"
             /\ index_chan[w] # <<>> /\ Head(index_chan[w]) = NoneMsg)
               => /\ wstate'[w] = "exit_clean"
                  /\ index_chan'[w] = Tail(index_chan[w])
                  /\ data_chan' = data_chan /\ events' = events
         /\ wstate[w] = "exit_clean" => wstate'[w] = "exit_clean"]_vars

C26_Witness ==
    /\ pc = "done" /\ result = "ValueError" /\ Len(yielded) = 1
    /\ wstate[1] = "exit_clean" /\ data_chan[1] = <<>>

\* C27: when the consumer closes the generator of the parallel augmenter
\* while it is suspended at a yield, the finally clause runs: the iteration
\* does not end without _shutdown_processes, which is called exactly once
\* for the pool, and the pool's abort event is set when the call is over.
C27_AbandonedPassShutsDownOnce ==
    exc = "GeneratorExit" =>
        /\ pc \in {"finally", "shutdown", "done"}
        /\ shutdown_calls = (IF pc = "finally" THEN 0 ELSE 1)
        /\ pc = "done" => IsSet(abort_event)

C27_Witness ==
    /\ exc = "GeneratorExit" /\ pc = "done"
    /\ shutdown_calls = 1 /\ IsSet(abort_event)
    /\ Len(yielded) = 1 /\ \E k \in 1..Len(data_queued) : data_queued[k] > 0

\* the pool has been started and the coordinator is in its try block, not
\* yet in the except or finally clause
PoolRunning ==
    kind = "Parallel" /\ pc \in {"prefill", "check", "sample", "collect",
                                  "recv", "yield"}

\* C28: while a pool runs in which no worker's fetch or transform has raised
\* (and the sampler raises nothing but exhaustion), the pool's abort event
\* is unset, the coordinator has not raised the pool-abort error and every
\* worker of the pool is running; and a start of a pool sets the previous
\* pool's event only, the new event starts unset.
C28_NoAbortWithoutFault ==
    /\ []((PoolRunning /\ ~WorkerRaised)
            => /\ ~IsSet(abort_event) /\ ~abort_seen
               /\ \A w \in PoolWorkers : Alive(w))
    /\ [][abort_event' # abort_event
            => /\ ~events'[abort_event']
               /\ \A e \in 1..Len(events) :
                     events'[e] = (events[e] \/ e = abort_event)]_vars

C28_Witness ==
    /\ pass = 2 /\ pc = "yield" /\ num_processes = 1 /\ ~WorkerRaised
    /\ ~IsSet(abort_event) /\ events[1]
    /\ \A w \in PoolWorkers : Alive(w)
====
